---- MODULE Spec2Model ----
(***************************************************************************)
(* Reference-counted handle SmartPtr<T> of src/SmartPointer.h (the variant *)
(* with ref_count, lines 67-207), modelled as a state machine over a heap  *)
(* of objects and of counter cells.                                        *)
(*                                                                         *)
(* A handle is a pair (ptr, ref_count).  Objects and counters are heap     *)
(* cells.  Addresses carry no meaning beyond equality, so a cell in use is *)
(* named by the lowest handle that points at it; inside an operation new   *)
(* cells take the lowest unused names and are renamed when it ends.  A     *)
(* cell that no live handle points at can never be touched again by the    *)
(* handle's code: it leaves the state, and if it was never deleted it is   *)
(* counted as leaked.  A deleted cell that a handle still points at stays  *)
(* in the state as "released"/"freed".                                     *)
(*                                                                         *)
(* Every operation is a function from a heap state to the SET of states it *)
(* can end in.  The set has one element unless the operation does          *)
(* something the language leaves undefined.  Copying the object behind a   *)
(* null pointer either kills the process or, for a T whose copy            *)
(* constructor reads nothing, goes through with an arbitrary value.  A use *)
(* of a deleted cell (read, write or second delete) ends in a fault state  *)
(* that stands for every continuation and is followed no further.          *)
(*                                                                         *)
(* Spec runs the handle's operations one at a time on SmartPtr<Base>;      *)
(* TypedSpec runs the casts over Base and Derived; WrapSpec adds handles   *)
(* built from a pointer that is already owned (src/unnamed/part_002).      *)
(* RaceSpec and SingletonSpec run two threads: RaceSpec lets them copy and *)
(* destroy handles of one record one memory access at a time, and          *)
(* SingletonSpec is the demo of src/Creational/Singleton.cpp.              *)
(***************************************************************************)
EXTENDS Integers, Sequences, FiniteSets, TLC

\* ---------------------------------------------------------------- bounds
\* handles alive at the same time
NumHandles == 3
\* leaked cells of each kind that are counted (the count saturates)
MaxLeak == 1

\* ------------------------------------------------------------- constants
Null == 0

Handles == 1..NumHandles
\* an assignment allocates the new object before the old one is unreachable
Objs == 1..(NumHandles + 1)
\* a cast allocates up to two counters that no handle keeps
Ctrs == 1..(NumHandles + 2)

\* values stored in an object (the tests use 10 and 20)
Values == {10, 20}
\* class hierarchy of the tests: Derived : public Base
Types == {"Base", "Derived"}
\* the instantiation SmartPtr<Base> holding Base objects
CoreTypes == {"Base"}

VARIABLES
    live,       \* live[h]: handle h has been constructed and not yet destroyed
    ty,         \* ty[h]: the T of SmartPtr<T>
    ptr,        \* ptr[h]: T *ptr, an object address or Null
    ref_count,  \* ref_count[h]: int *ref_count, a counter address
    objState,   \* objState[o]: "unalloc", "live" or "released"
    objVal,     \* objVal[o]: the value held by object o
    objDyn,     \* objDyn[o]: dynamic type of object o
    ctrState,   \* ctrState[k]: "unalloc", "live" or "freed"
    ctrVal,     \* ctrVal[k]: the int held by counter cell k
    leakObj,    \* objects allocated, never deleted, reachable from no handle
    leakCtr,    \* counters allocated, never deleted, reachable from no handle
    fault,      \* "none", or the memory fault that ended the run
    last,       \* the operation that produced this state
    pc,         \* pc[t]: where thread t stands in its code
    reg,        \* reg[t]: the value thread t last loaded from a counter
    hnd,        \* hnd[t]: the handle thread t is working on or holds
    mutex_,     \* the thread that holds Singleton::mutex_, or "free"
    raced,      \* a store has overwritten a counter changed since its load
    out         \* out[t]: the value thread t has printed

\* the variables of the threads
tvars == <<pc, reg, hnd, mutex_, raced, out>>

vars == <<live, ty, ptr, ref_count, objState, objVal, objDyn,
          ctrState, ctrVal, leakObj, leakCtr, fault, last, tvars>>

\* the two threads of the Singleton demo
Threads == {"ThreadFoo", "ThreadBar"}

\* Derived is-a Base: the result of dynamic_cast<U*> on an object of type d
IsA(d, u) == d = u \/ (d = "Derived" /\ u = "Base")

\* ------------------------------------------------------------ heap model
\* the state before any handle exists
Boot ==
    [live |-> [h \in Handles |-> FALSE], ty |-> [h \in Handles |-> "Base"],
     ptr |-> [h \in Handles |-> Null], ref_count |-> [h \in Handles |-> 0],
     objState |-> [o \in Objs |-> "unalloc"], objVal |-> [o \in Objs |-> 10],
     objDyn |-> [o \in Objs |-> "Base"], ctrState |-> [k \in Ctrs |-> "unalloc"],
     ctrVal |-> [k \in Ctrs |-> 0], leakObj |-> 0, leakCtr |-> 0,
     fault |-> "none", thrown |-> FALSE, log |-> <<>>]

\* the current state as a record; log collects the events of one operation
Cur ==
    [live |-> live, ty |-> ty, ptr |-> ptr, ref_count |-> ref_count,
     objState |-> objState, objVal |-> objVal, objDyn |-> objDyn,
     ctrState |-> ctrState, ctrVal |-> ctrVal,
     leakObj |-> leakObj, leakCtr |-> leakCtr,
     fault |-> fault, thrown |-> FALSE, log |-> <<>>]

Emit(s, kind, id, val) == [s EXCEPT !.log = Append(@, <<kind, id, val>>)]

\* a memory fault: the run ends, no handle and no heap is left to observe
Fault(s, what) == [Boot EXCEPT !.fault = what, !.log = Append(s.log, <<what, 0, 0>>)]

\* sequential composition: run F on every outcome that is still running
Then(S, F(_)) == UNION {IF s.fault # "none" THEN {s} ELSE F(s) : s \in S}

FreeObjs(s) == {o \in Objs : s.objState[o] = "unalloc"}
FreeCtrs(s) == {k \in Ctrs : s.ctrState[k] = "unalloc"}
FreshObj(s) == CHOOSE o \in FreeObjs(s) : \A p \in FreeObjs(s) : o <= p
FreshCtr(s) == CHOOSE k \in FreeCtrs(s) : \A j \in FreeCtrs(s) : k <= j

Saturate(n) == IF n > MaxLeak THEN MaxLeak ELSE n

\* Cells no handle points at any more leave the state (live ones are leaks);
\* the others are renamed after the lowest handle that points at them.
Settle(s) ==
    LET hs == {h \in Handles : s.live[h]}
        nameO == [o \in Objs |->
                    IF \E h \in hs : s.ptr[h] = o
                    THEN CHOOSE h \in hs : s.ptr[h] = o /\ \A g \in hs : s.ptr[g] = o => h <= g
                    ELSE 0]
        nameK == [k \in Ctrs |->
                    IF \E h \in hs : s.ref_count[h] = k
                    THEN CHOOSE h \in hs : s.ref_count[h] = k
                                         /\ \A g \in hs : s.ref_count[g] = k => h <= g
                    ELSE 0]
        lostO == {o \in Objs : s.objState[o] = "live" /\ nameO[o] = 0}
        lostK == {k \in Ctrs : s.ctrState[k] = "live" /\ nameK[k] = 0}
        ownO(i) == i \in hs /\ s.ptr[i] # Null /\ nameO[s.ptr[i]] = i
        ownK(i) == i \in hs /\ nameK[s.ref_count[i]] = i
    IN [s EXCEPT
          !.ptr = [h \in Handles |-> IF s.ptr[h] = Null THEN Null ELSE nameO[s.ptr[h]]],
          !.ref_count = [h \in Handles |-> IF s.live[h] THEN nameK[s.ref_count[h]] ELSE 0],
          !.objState = [i \in Objs |-> IF ownO(i) THEN s.objState[s.ptr[i]] ELSE "unalloc"],
          !.objVal = [i \in Objs |-> IF ownO(i) THEN s.objVal[s.ptr[i]] ELSE 10],
          !.objDyn = [i \in Objs |-> IF ownO(i) THEN s.objDyn[s.ptr[i]] ELSE "Base"],
          !.ctrState = [i \in Ctrs |-> IF ownK(i) THEN s.ctrState[s.ref_count[i]] ELSE "unalloc"],
          !.ctrVal = [i \in Ctrs |-> IF ownK(i) THEN s.ctrVal[s.ref_count[i]] ELSE 0],
          !.leakObj = Saturate(@ + Cardinality(lostO)),
          !.leakCtr = Saturate(@ + Cardinality(lostK))]

\* the state an operation leaves behind
After(r) == IF r.fault # "none" THEN r ELSE Settle(r)

Installs(r) ==
    \E s \in {After(r)} :
    /\ live' = s.live
    /\ ty' = s.ty
    /\ ptr' = s.ptr
    /\ ref_count' = s.ref_count
    /\ objState' = s.objState
    /\ objVal' = s.objVal
    /\ objDyn' = s.objDyn
    /\ ctrState' = s.ctrState
    /\ ctrVal' = s.ctrVal
    /\ leakObj' = s.leakObj
    /\ leakCtr' = s.leakCtr
    /\ fault' = s.fault

\* an operation run as a whole by one thread: no other thread moves
Install(r, op, dst, src) ==
    /\ Installs(r)
    /\ last' = [op |-> IF r.thrown THEN "bad_cast" ELSE op, dst |-> dst, src |-> src]
    /\ UNCHANGED tvars

\* new T(v) producing an object of dynamic type d
NewObj(s, d, v) ==
    LET o == FreshObj(s) IN
    Emit([s EXCEPT !.objState[o] = "live", !.objVal[o] = v, !.objDyn[o] = d],
         "new", o, v)

\* new int(n)
NewCtr(s, n) ==
    LET k == FreshCtr(s) IN
    Emit([s EXCEPT !.ctrState[k] = "live", !.ctrVal[k] = n], "newctr", k, n)

\* *ref_count += d through the counter address k
AddCtr(s, k, d) ==
    IF s.ctrState[k] # "live" THEN {Fault(s, "use_after_free")}
    ELSE {Emit([s EXCEPT !.ctrVal[k] = @ + d],
               IF d > 0 THEN "inc" ELSE "dec", k, s.ctrVal[k] + d)}

\* delete ptr
DeleteObj(s, o) ==
    IF o = Null THEN {s}
    ELSE IF s.objState[o] # "live" THEN {Fault(s, "double_delete")}
    ELSE {Emit([s EXCEPT !.objState[o] = "released", !.objVal[o] = 10,
                         !.objDyn[o] = "Base"],
               "delete", o, 0)}

\* delete ref_count
DeleteCtr(s, k) ==
    IF s.ctrState[k] # "live" THEN {Fault(s, "double_delete")}
    ELSE {Emit([s EXCEPT !.ctrState[k] = "freed"], "delctr", k, 0)}

\* --(*ref_count); if (*ref_count == 0) { delete ptr; delete ref_count; }
Release(s, self) ==
    LET k == s.ref_count[self]
        zero(s1) == IF s1.ctrVal[k] = 0
                    THEN Then(DeleteObj(s1, s1.ptr[self]),
                              LAMBDA s2 : DeleteCtr(s2, k))
                    ELSE {s1}
    IN Then(AddCtr(s, k, -1), zero)

\* new T(*other.ptr): reads the source object, allocates a T
CopyObject(s, other) ==
    LET o == s.ptr[other] IN
    IF o = Null
    THEN {Fault(s, "null_deref")} \cup {NewObj(s, s.ty[other], v) : v \in Values}
    ELSE IF s.objState[o] # "live" THEN {Fault(s, "use_after_free")}
    ELSE {NewObj(s, s.ty[other], s.objVal[o])}

\* ------------------------------------------------------------ observers
\* T* get() const
get(s, h) == s.ptr[h]

\* a use_count() without the test ptr == nullptr
use_count_NoNullTest(s, h) == s.ctrVal[s.ref_count[h]]

\* int use_count() const
use_count(s, h) == IF s.ptr[h] = Null THEN 0 ELSE s.ctrVal[s.ref_count[h]]

\* bool operator!() const
IsNullHandle(s, h) == s.ptr[h] = Null

\* T &operator*() const: the value read through the handle
operator_star(s, h) == s.objVal[s.ptr[h]]

\* T *operator->() const
operator_arrow(s, h) == s.ptr[h]

\* operator== and operator!= as the specification defines them: the two
\* handles reference the same storage and the same counter record
Equals(s, a, b) == s.ptr[a] = s.ptr[b] /\ s.ref_count[a] = s.ref_count[b]

NotEquals(s, a, b) == ~Equals(s, a, b)

\* the slot the next handle is constructed in: handle names carry no meaning
NextSlot(h) == ~live[h] /\ \A g \in Handles : g < h => live[g]

\* ----------------------------------------------------------- operations
\* an owning constructor that starts the counter at 0
SmartPtr_raw_ZeroCount(s, h, t, d, v) ==
    LET o == FreshObj(s)
        s1 == NewObj(s, d, v)
        k == FreshCtr(s1)
        s2 == NewCtr(s1, 0)
    IN {[s2 EXCEPT !.live[h] = TRUE, !.ty[h] = t, !.ptr[h] = o, !.ref_count[h] = k]}

\* SmartPtr(T *p = nullptr) with p = new D(v) freshly allocated
SmartPtr_raw(s, h, t, d, v) ==
    LET o == FreshObj(s)
        s1 == NewObj(s, d, v)
        k == FreshCtr(s1)
        s2 == NewCtr(s1, 1)
    IN {[s2 EXCEPT !.live[h] = TRUE, !.ty[h] = t, !.ptr[h] = o, !.ref_count[h] = k]}

\* SmartPtr(T&& other): ptr(new T(std::move(other))), ref_count(new int(1))
SmartPtr_value(s, h, t, v) ==
    LET o == FreshObj(s)
        s1 == NewObj(s, t, v)
        k == FreshCtr(s1)
        s2 == NewCtr(s1, 1)
    IN {[s2 EXCEPT !.live[h] = TRUE, !.ty[h] = t, !.ptr[h] = o, !.ref_count[h] = k]}

\* SmartPtr(T *p = nullptr) with p = nullptr
SmartPtr_null(s, h, t) ==
    LET k == FreshCtr(s)
        s1 == NewCtr(s, 1)
    IN {[s1 EXCEPT !.live[h] = TRUE, !.ty[h] = t, !.ptr[h] = Null, !.ref_count[h] = k]}

\* a move constructor that takes a stake like a copy: ++(*ref_count)
SmartPtr_move_Counting(s, h, other) ==
    LET s1 == [s EXCEPT !.live[h] = TRUE, !.ty[h] = s.ty[other],
                        !.ptr[h] = s.ptr[other],
                        !.ref_count[h] = s.ref_count[other]]
        s2 == [s1 EXCEPT !.ptr[other] = Null]
        k == FreshCtr(s2)
        s3 == NewCtr(s2, 0)
    IN AddCtr([s3 EXCEPT !.ref_count[other] = k], s.ref_count[other], 1)

\* a move constructor that leaves other.ref_count pointing at the shared counter
SmartPtr_move_SharedCounter(s, h, other) ==
    LET s1 == [s EXCEPT !.live[h] = TRUE, !.ty[h] = s.ty[other],
                        !.ptr[h] = s.ptr[other],
                        !.ref_count[h] = s.ref_count[other]]
    IN {[s1 EXCEPT !.ptr[other] = Null]}

\* SmartPtr(SmartPtr<T>&& other)
SmartPtr_move(s, h, other) ==
    LET s1 == [s EXCEPT !.live[h] = TRUE, !.ty[h] = s.ty[other],
                        !.ptr[h] = s.ptr[other],
                        !.ref_count[h] = s.ref_count[other]]
        s2 == [s1 EXCEPT !.ptr[other] = Null]
        k == FreshCtr(s2)
        s3 == NewCtr(s2, 0)
    IN {[s3 EXCEPT !.ref_count[other] = k]}

\* a copy constructor that forgets ++(*ref_count)
SmartPtr_copy_NoIncrement(s, h, other) ==
    LET o == FreshObj(s)
        init(s1) == {[s1 EXCEPT !.live[h] = TRUE, !.ty[h] = s.ty[other],
                                !.ptr[h] = o,
                                !.ref_count[h] = s.ref_count[other]]}
    IN Then(CopyObject(s, other), init)

\* SmartPtr(const SmartPtr<T> &other)
SmartPtr_copy(s, h, other) ==
    LET o == FreshObj(s)
        init(s1) == AddCtr([s1 EXCEPT !.live[h] = TRUE, !.ty[h] = s.ty[other],
                                      !.ptr[h] = o,
                                      !.ref_count[h] = s.ref_count[other]],
                           s.ref_count[other], 1)
    IN Then(CopyObject(s, other), init)

\* ~SmartPtr()
Destructor(s, h) ==
    Then(Release(s, h),
         LAMBDA s1 : {[s1 EXCEPT !.live[h] = FALSE, !.ty[h] = "Base",
                                 !.ptr[h] = Null, !.ref_count[h] = 0]})

\* a copy assignment without the test this != &other
CopyAssignOp_NoSelfCheck(s, h, other) ==
    LET alias(s1) ==
            LET o == FreshObj(s1) IN
            Then(CopyObject(s1, other),
                 LAMBDA s2 : AddCtr([s2 EXCEPT !.ptr[h] = o,
                                               !.ref_count[h] = s2.ref_count[other]],
                                    s2.ref_count[other], 1))
    IN Then(Release(s, h), alias)

\* SmartPtr<T> &operator=(const SmartPtr<T> &other)
CopyAssignOp(s, h, other) ==
    LET alias(s1) ==
            LET o == FreshObj(s1) IN
            Then(CopyObject(s1, other),
                 LAMBDA s2 : AddCtr([s2 EXCEPT !.ptr[h] = o,
                                               !.ref_count[h] = s2.ref_count[other]],
                                    s2.ref_count[other], 1))
    IN IF h = other THEN {s} ELSE Then(Release(s, h), alias)

\* SmartPtr<T> &operator=(SmartPtr<T>&& other)
MoveAssignOp(s, h, other) ==
    LET take(s1) ==
            LET s2 == [s1 EXCEPT !.ptr[h] = s1.ptr[other],
                                 !.ref_count[h] = s1.ref_count[other],
                                 !.ptr[other] = Null]
                k == FreshCtr(s2)
                s3 == NewCtr(s2, 1)
            IN {[s3 EXCEPT !.ref_count[other] = k]}
    IN IF h = other THEN {s} ELSE Then(Release(s, h), take)

\* a cast body that forgets ++(*ref_count)
CastBody_NoIncrement(s, h, self, u, newPtr, elide) ==
    LET s1 == NewCtr(s, 1)
        s3 == [s1 EXCEPT !.live[h] = TRUE, !.ty[h] = u, !.ptr[h] = newPtr,
                         !.ref_count[h] = s.ref_count[self]]
    IN IF newPtr = Null THEN {[s EXCEPT !.thrown = TRUE]} ELSE {s3}

\* the body shared by dynamicCast and staticCast once newPtr is computed;
\* elide: the returned newSmartPtr is constructed in place (NRVO), otherwise
\* it is moved out and the local is destroyed
CastBody(s, h, self, u, newPtr, elide) ==
    LET kt == FreshCtr(s)
        s1 == NewCtr(s, 1)
        made(s2) ==
            LET s3 == [s2 EXCEPT !.live[h] = TRUE, !.ty[h] = u, !.ptr[h] = newPtr,
                                 !.ref_count[h] = s.ref_count[self]]
                k0 == FreshCtr(s3)
                s4 == NewCtr(s3, 0)
            IN IF elide THEN {s3} ELSE AddCtr(s4, k0, -1)
    IN IF newPtr = Null THEN {[s EXCEPT !.thrown = TRUE]}
       ELSE Then(AddCtr(s1, s.ref_count[self], 1), made)

\* a dynamicCast that builds the handle before looking at newPtr
DynamicCastOp_NoTypeTest(s, h, self, u, elide) ==
    CastBody(s, h, self, u, s.ptr[self], elide)

\* template <typename U> SmartPtr<U> dynamicCast()
DynamicCastOp(s, h, self, u, elide) ==
    LET o == s.ptr[self] IN
    IF o # Null /\ s.objState[o] # "live" THEN {Fault(s, "use_after_free")}
    ELSE CastBody(s, h, self, u,
                  IF o # Null /\ IsA(s.objDyn[o], u) THEN o ELSE Null, elide)

\* template <typename U> SmartPtr<U> staticCast()
StaticCastOp(s, h, self, u, elide) ==
    CastBody(s, h, self, u, s.ptr[self], elide)

\* T &operator*() used as an lvalue: *h = v
StoreThrough(s, h, v) ==
    LET o == s.ptr[h] IN
    IF o = Null THEN {Fault(s, "null_deref")}
    ELSE IF s.objState[o] # "live" THEN {Fault(s, "use_after_free")}
    ELSE {Emit([s EXCEPT !.objVal[o] = v], "store", o, v)}

\* actions ---------------------------------------------------------------
Running == fault = "none"

ConstructRaw(h, t, d, v) ==
    /\ Running /\ NextSlot(h)
    /\ IsA(d, t)
    /\ \E r \in SmartPtr_raw(Cur, h, t, d, v) : Install(r, "construct", h, 0)

ConstructValue(h, t, v) ==
    /\ Running /\ NextSlot(h)
    /\ \E r \in SmartPtr_value(Cur, h, t, v) : Install(r, "construct_value", h, 0)

ConstructNull(h, t) ==
    /\ Running /\ NextSlot(h)
    /\ \E r \in SmartPtr_null(Cur, h, t) : Install(r, "construct_null", h, 0)

MoveConstruct(h, other) ==
    /\ Running /\ NextSlot(h) /\ live[other]
    /\ \E r \in SmartPtr_move(Cur, h, other) : Install(r, "move_construct", h, other)

CopyConstruct(h, other) ==
    /\ Running /\ NextSlot(h) /\ live[other]
    /\ \E r \in SmartPtr_copy(Cur, h, other) : Install(r, "copy_construct", h, other)

Destroy(h) ==
    /\ Running /\ live[h]
    /\ \E r \in Destructor(Cur, h) : Install(r, "destroy", h, 0)

CopyAssign(h, other) ==
    /\ Running /\ live[h] /\ live[other] /\ ty[h] = ty[other]
    /\ \E r \in CopyAssignOp(Cur, h, other) : Install(r, "copy_assign", h, other)

MoveAssign(h, other) ==
    /\ Running /\ live[h] /\ live[other] /\ ty[h] = ty[other]
    /\ \E r \in MoveAssignOp(Cur, h, other) : Install(r, "move_assign", h, other)

DynamicCast(h, self, u, elide) ==
    /\ Running /\ NextSlot(h) /\ live[self]
    /\ \E r \in DynamicCastOp(Cur, h, self, u, elide) :
           Install(r, "dynamic_cast", h, self)

\* static_cast<U*> is drawn only where the language defines it: on a null
\* pointer, or on an object that is a U
StaticCast(h, self, u, elide) ==
    /\ Running /\ NextSlot(h) /\ live[self]
    /\ IF ptr[self] = Null THEN TRUE ELSE IsA(objDyn[ptr[self]], u)
    /\ \E r \in StaticCastOp(Cur, h, self, u, elide) :
           Install(r, "static_cast", h, self)

Store(h, v) ==
    /\ Running /\ live[h]
    /\ \E r \in StoreThrough(Cur, h, v) : Install(r, "store", h, 0)

Init ==
    /\ live = Boot.live
    /\ ty = Boot.ty
    /\ ptr = Boot.ptr
    /\ ref_count = Boot.ref_count
    /\ objState = Boot.objState
    /\ objVal = Boot.objVal
    /\ objDyn = Boot.objDyn
    /\ ctrState = Boot.ctrState
    /\ ctrVal = Boot.ctrVal
    /\ leakObj = 0
    /\ leakCtr = 0
    /\ fault = "none"
    /\ last = [op |-> "init", dst |-> 0, src |-> 0]
    /\ pc = [t \in Threads |-> "unborn"]
    /\ reg = [t \in Threads |-> 0]
    /\ hnd = [t \in Threads |-> 0]
    /\ mutex_ = "free"
    /\ raced = FALSE
    /\ out = [t \in Threads |-> 0]

Next ==
    \/ \E h \in Handles, t \in CoreTypes, d \in CoreTypes, v \in Values :
           ConstructRaw(h, t, d, v)
    \/ \E h \in Handles, t \in CoreTypes, v \in Values : ConstructValue(h, t, v)
    \/ \E h \in Handles, t \in CoreTypes : ConstructNull(h, t)
    \/ \E h \in Handles, o \in Handles : MoveConstruct(h, o)
    \/ \E h \in Handles, o \in Handles : CopyConstruct(h, o)
    \/ \E h \in Handles : Destroy(h)
    \/ \E h \in Handles, o \in Handles : CopyAssign(h, o)
    \/ \E h \in Handles, o \in Handles : MoveAssign(h, o)
    \/ \E h \in Handles, o \in Handles, u \in CoreTypes, e \in BOOLEAN :
           DynamicCast(h, o, u, e)
    \/ \E h \in Handles, o \in Handles, u \in CoreTypes, e \in BOOLEAN :
           StaticCast(h, o, u, e)
    \/ \E h \in Handles, v \in Values : Store(h, v)

Spec == Init /\ [][Next]_vars

\* the casts of the tests: SmartPtr<Base> and SmartPtr<Derived> over Base and
\* Derived objects, constructed, cast, moved and destroyed
TypedNext ==
    \/ \E h \in Handles, t \in Types, d \in Types : ConstructRaw(h, t, d, 10)
    \/ \E h \in Handles, t \in Types : ConstructNull(h, t)
    \/ \E h \in Handles, o \in Handles : MoveConstruct(h, o)
    \/ \E h \in Handles : Destroy(h)
    \/ \E h \in Handles, o \in Handles, u \in Types, e \in BOOLEAN :
           DynamicCast(h, o, u, e)
    \/ \E h \in Handles, o \in Handles, u \in Types, e \in BOOLEAN :
           StaticCast(h, o, u, e)

TypedSpec == Init /\ [][TypedNext]_vars

\* ------------------------------------------------------------ vocabulary
Owning(h) == live[h] /\ ptr[h] # Null
Empty(h) == live[h] /\ ptr[h] = Null

\* the live handles whose get() is the storage of h
StorageAliases(h) == {g \in Handles : live[g] /\ ptr[g] # Null /\ ptr[g] = ptr[h]}

\* h is Owning and neither its object nor its counter has been deleted
Intact(h) ==
    /\ Owning(h)
    /\ objState[ptr[h]] = "live"
    /\ ctrState[ref_count[h]] = "live"

\* h is Intact, or Empty with a counter that has not been deleted
Sound(h) == Intact(h) \/ (Empty(h) /\ ctrState[ref_count[h]] = "live")

\* the Owning handles that share the counter record of h
RecordAliases(h) == {g \in Handles : Owning(g) /\ ref_count[g] = ref_count[h]}

\* the live handles, Owning or Empty, whose ref_count is that of h
CounterSharers(h) == {g \in Handles : live[g] /\ ref_count[g] = ref_count[h]}

\* the results of every operation that can be applied in the current state
Outcomes ==
    IF ~Running THEN {}
    ELSE UNION (
         {SmartPtr_move(Cur, h, o) : h \in {x \in Handles : NextSlot(x)},
                                     o \in {x \in Handles : live[x]}}
    \cup {SmartPtr_copy(Cur, h, o) : h \in {x \in Handles : NextSlot(x)},
                                     o \in {x \in Handles : live[x]}}
    \cup {Destructor(Cur, h) : h \in {x \in Handles : live[x]}}
    \cup {CopyAssignOp(Cur, h, o) : h \in {x \in Handles : live[x]},
                                    o \in {x \in Handles : live[x]}}
    \cup {MoveAssignOp(Cur, h, o) : h \in {x \in Handles : live[x]},
                                    o \in {x \in Handles : live[x]}}
    \cup {DynamicCastOp(Cur, h, o, "Base", e) : h \in {x \in Handles : NextSlot(x)},
                                     o \in {x \in Handles : live[x]}, e \in BOOLEAN}
    \cup {StaticCastOp(Cur, h, o, "Base", e) : h \in {x \in Handles : NextSlot(x)},
                                     o \in {x \in Handles : live[x]}, e \in BOOLEAN})

\* in the event log: every delete of an object directly follows the decrement
\* that took a counter to 0
DeleteOnlyAtZero(lg) ==
    \A i \in 1..Len(lg) :
        lg[i][1] = "delete" => i > 1 /\ lg[i-1][1] = "dec" /\ lg[i-1][3] = 0

\* the events of kind in an event log, as positions
Events(lg, kind) == {i \in 1..Len(lg) : lg[i][1] = kind}

\* ------------------------------------------- wrapping an owned pointer
\* a constructor that looks the pointer up and joins the record of its owner
SmartPtr_wrap_Joining(s, h, t, g) ==
    AddCtr([s EXCEPT !.live[h] = TRUE, !.ty[h] = t, !.ptr[h] = s.ptr[g],
                     !.ref_count[h] = s.ref_count[g]],
           s.ref_count[g], 1)

\* SmartPtr(T *p = nullptr) with p = g.get(), a pointer handle g already
\* holds (for an object that stores a handle to itself, p = this)
SmartPtr_wrap(s, h, t, g) ==
    LET k == FreshCtr(s)
        s1 == NewCtr(s, 1)
    IN {[s1 EXCEPT !.live[h] = TRUE, !.ty[h] = t, !.ptr[h] = s.ptr[g],
                   !.ref_count[h] = k]}

WrapRaw(h, g) ==
    /\ Running /\ NextSlot(h) /\ Owning(g)
    /\ \E r \in SmartPtr_wrap(Cur, h, ty[g], g) : Install(r, "wrap_raw", h, g)

\* handles are constructed, also from pointers that a handle already holds,
\* moved and destroyed
WrapNext ==
    \/ \E h \in Handles, v \in Values : ConstructRaw(h, "Base", "Base", v)
    \/ \E h \in Handles : ConstructNull(h, "Base")
    \/ \E h \in Handles, g \in Handles : WrapRaw(h, g)
    \/ \E h \in Handles, o \in Handles : MoveConstruct(h, o)
    \/ \E h \in Handles : Destroy(h)

WrapSpec == Init /\ [][WrapNext]_vars

\* --------------------------------------------------------------- threads
\* Two threads working on handles.  A thread runs the handle's code one
\* memory access at a time: ++(*ref_count) and --(*ref_count) are a load
\* and a store of a plain int, so another thread can run between the two.

\* the access *ref_count through handle h: a deleted counter is a fault
Loads(s, h) ==
    IF s.ctrState[s.ref_count[h]] # "live" THEN {Fault(s, "use_after_free")} ELSE {s}

\* the value that access reads
LoadCount(s, h) == s.ctrVal[s.ref_count[h]]

\* a store that re-reads the counter: an indivisible ++ or --
StoreCount_Atomic(s, h, seen, d) == AddCtr(s, s.ref_count[h], d)

\* the store half of ++(*ref_count) (d = 1) and --(*ref_count) (d = -1):
\* writes seen + d, where seen is the value the thread loaded before
StoreCount(s, h, seen, d) ==
    LET k == s.ref_count[h] IN
    IF s.ctrState[k] # "live" THEN {Fault(s, "use_after_free")}
    ELSE {Emit([s EXCEPT !.ctrVal[k] = seen + d],
               IF d > 0 THEN "inc" ELSE "dec", k, seen + d)}

\* the end of ~SmartPtr(): handle h exists no more
Vanish(s, h) ==
    {[s EXCEPT !.live[h] = FALSE, !.ty[h] = "Base", !.ptr[h] = Null,
               !.ref_count[h] = 0]}

\* { delete ptr; delete ref_count; } and the end of the destructor
Reclaim(s, h) ==
    Then(Then(DeleteObj(s, s.ptr[h]), LAMBDA s1 : DeleteCtr(s1, s.ref_count[h])),
         LAMBDA s2 : Vanish(s2, h))

\* the member initialisers of the copy constructor:
\* ptr(new T(*other.ptr)), ref_count(other.ref_count)
CopyInit(s, h, other) ==
    LET o == FreshObj(s) IN
    Then(CopyObject(s, other),
         LAMBDA s1 : {[s1 EXCEPT !.live[h] = TRUE, !.ty[h] = s.ty[other],
                                 !.ptr[h] = o,
                                 !.ref_count[h] = s.ref_count[other]]})

\* the member initialisers of the move constructor:
\* ptr(other.ptr), ref_count(other.ref_count)
MoveInit(s, h, other) ==
    {[s EXCEPT !.live[h] = TRUE, !.ty[h] = s.ty[other], !.ptr[h] = s.ptr[other],
               !.ref_count[h] = s.ref_count[other]]}

\* the body of the move constructor:
\* other.ptr = nullptr; other.ref_count = new int(0);
MoveBody(s, other) ==
    LET s1 == [s EXCEPT !.ptr[other] = Null]
        k == FreshCtr(s1)
        s2 == NewCtr(s1, 0)
    IN {[s2 EXCEPT !.ref_count[other] = k]}

\* no thread has been started / every thread has returned
Unborn == \A t \in Threads : pc[t] = "unborn"
BothDone == \A t \in Threads : pc[t] = "done"

\* thread t moves to p; what it holds and the mutex stay
Goes(t, p, op) ==
    /\ pc' = [pc EXCEPT ![t] = p]
    /\ last' = [op |-> op, dst |-> hnd[t], src |-> 0]
    /\ UNCHANGED <<hnd, mutex_, out>>

\* ~SmartPtr() of hnd[t], line 93: the load of --(*ref_count)
DestroyLoad(t) ==
    /\ Running /\ pc[t] = "ready"
    /\ \E r \in Loads(Cur, hnd[t]) : Installs(r)
    /\ reg' = [reg EXCEPT ![t] = LoadCount(Cur, hnd[t])]
    /\ Goes(t, "d_store", "d_load")
    /\ UNCHANGED raced

\* line 93: the store of --(*ref_count)
DestroyStore(t) ==
    /\ Running /\ pc[t] = "d_store"
    /\ \E r \in StoreCount(Cur, hnd[t], reg[t], -1) : Installs(r)
    /\ raced' = (raced \/ LoadCount(Cur, hnd[t]) # reg[t])
    /\ Goes(t, "d_test", "d_store")
    /\ UNCHANGED reg

\* line 94: if(*ref_count == 0); when it is not, the destructor ends
DestroyTest(t) ==
    /\ Running /\ pc[t] = "d_test"
    /\ \E r \in Then(Loads(Cur, hnd[t]),
                     LAMBDA s : IF LoadCount(s, hnd[t]) = 0 THEN {s}
                                ELSE Vanish(s, hnd[t])) :
           Installs(r)
    /\ Goes(t, IF LoadCount(Cur, hnd[t]) = 0 THEN "d_delete" ELSE "done", "d_test")
    /\ UNCHANGED <<reg, raced>>

\* lines 95-97: delete ptr; delete ref_count; and the destructor ends
DestroyDelete(t) ==
    /\ Running /\ pc[t] = "d_delete"
    /\ \E r \in Reclaim(Cur, hnd[t]) : Installs(r)
    /\ Goes(t, "done", "d_delete")
    /\ UNCHANGED <<reg, raced>>

\* SmartPtr c(hnd[t]), line 111: the member initialisers
CopyBegin(t, c) ==
    /\ Running /\ pc[t] = "ready" /\ NextSlot(c)
    /\ \E r \in CopyInit(Cur, c, hnd[t]) : Installs(r)
    /\ Goes(t, "c_load", "c_init")
    /\ UNCHANGED <<reg, raced>>

\* line 112: the load of ++(*ref_count)
CopyLoad(t) ==
    /\ Running /\ pc[t] = "c_load"
    /\ \E r \in Loads(Cur, hnd[t]) : Installs(r)
    /\ reg' = [reg EXCEPT ![t] = LoadCount(Cur, hnd[t])]
    /\ Goes(t, "c_store", "c_load")
    /\ UNCHANGED raced

\* line 112: the store of ++(*ref_count)
CopyStore(t) ==
    /\ Running /\ pc[t] = "c_store"
    /\ \E r \in StoreCount(Cur, hnd[t], reg[t], 1) : Installs(r)
    /\ raced' = (raced \/ LoadCount(Cur, hnd[t]) # reg[t])
    /\ Goes(t, "done", "c_store")
    /\ UNCHANGED reg

\* two handles of one ownership record are handed to the two threads
Spawn(a, b) ==
    /\ Running /\ Unborn /\ a # b
    /\ Intact(a) /\ Intact(b) /\ ref_count[a] = ref_count[b]
    /\ pc' = [t \in Threads |-> "ready"]
    /\ hnd' = [t \in Threads |-> IF t = "ThreadFoo" THEN a ELSE b]
    /\ last' = [op |-> "spawn", dst |-> a, src |-> b]
    /\ UNCHANGED <<live, ty, ptr, ref_count, objState, objVal, objDyn,
                   ctrState, ctrVal, leakObj, leakCtr, fault, reg, mutex_,
                   raced, out>>

\* one thread builds aliases with casts, hands two of them to two threads
\* that each copy or destroy theirs, and destroys what is left after both
\* have returned
RaceNext ==
    \/ \E h \in Handles, v \in Values : Unborn /\ ConstructRaw(h, "Base", "Base", v)
    \/ \E h \in Handles, o \in Handles, e \in BOOLEAN :
           Unborn /\ DynamicCast(h, o, "Base", e)
    \/ \E a \in Handles, b \in Handles : Spawn(a, b)
    \/ \E t \in Threads : DestroyLoad(t)
    \/ \E t \in Threads : DestroyStore(t)
    \/ \E t \in Threads : DestroyTest(t)
    \/ \E t \in Threads : DestroyDelete(t)
    \/ \E t \in Threads, c \in Handles : CopyBegin(t, c)
    \/ \E t \in Threads : CopyLoad(t)
    \/ \E t \in Threads : CopyStore(t)
    \/ \E h \in Handles : BothDone /\ Destroy(h)

RaceSpec == Init /\ [][RaceNext]_vars

\* ------------------------------------------------- the Singleton demo
\* static SmartPtr<Singleton> Singleton::singleton_: the first handle made
singleton_ == 1

\* the value a thread passes to GetInstance: "FOO" is 10, "BAR" is 20
Greeting(t) == IF t = "ThreadFoo" THEN 10 ELSE 20

\* the thread that is not t
Other(t) == CHOOSE u \in Threads : u # t

\* singleton->value(): reads the object behind handle h
ReadThrough(s, h) ==
    IF s.ptr[h] = Null THEN {Fault(s, "null_deref")}
    ELSE IF s.objState[s.ptr[h]] # "live" THEN {Fault(s, "use_after_free")}
    ELSE {s}

\* thread t takes the handle in slot c (0: none) and moves to p
Takes(t, c, p, op) ==
    /\ pc' = [pc EXCEPT ![t] = p]
    /\ hnd' = [hnd EXCEPT ![t] = c]
    /\ last' = [op |-> op, dst |-> c, src |-> 0]
    /\ UNCHANGED <<reg, mutex_, raced, out>>

\* main: std::thread t1(ThreadFoo); std::thread t2(ThreadBar);
StartThreads ==
    /\ Running /\ Unborn /\ live[singleton_]
    /\ pc' = [t \in Threads |-> "sleep"]
    /\ last' = [op |-> "start", dst |-> 0, src |-> 0]
    /\ UNCHANGED <<live, ty, ptr, ref_count, objState, objVal, objDyn,
                   ctrState, ctrVal, leakObj, leakCtr, fault, reg, hnd,
                   mutex_, raced, out>>

\* GetInstance: std::unique_lock<std::mutex> lock(mutex_);
Lock(t) ==
    /\ Running /\ pc[t] = "sleep" /\ mutex_ = "free"
    /\ mutex_' = t
    /\ pc' = [pc EXCEPT ![t] = "test"]
    /\ last' = [op |-> "lock", dst |-> 0, src |-> 0]
    /\ UNCHANGED <<live, ty, ptr, ref_count, objState, objVal, objDyn,
                   ctrState, ctrVal, leakObj, leakCtr, fault, reg, hnd,
                   raced, out>>

\* GetInstance: if(!singleton_)
TestInstance(t) ==
    /\ Running /\ pc[t] = "test"
    /\ Installs(Cur)
    /\ Goes(t, IF IsNullHandle(Cur, singleton_) THEN "create" ELSE "return", "test")
    /\ UNCHANGED <<reg, raced>>

\* GetInstance: the temporary SmartPtr<Singleton>(new Singleton(value))
CreateInstance(t, c) ==
    /\ Running /\ pc[t] = "create" /\ NextSlot(c)
    /\ \E r \in SmartPtr_raw(Cur, c, "Base", "Base", Greeting(t)) : Installs(r)
    /\ Takes(t, c, "assign", "create")

\* GetInstance: singleton_ = <the temporary>, a move assignment
AssignInstance(t) ==
    /\ Running /\ pc[t] = "assign"
    /\ \E r \in MoveAssignOp(Cur, singleton_, hnd[t]) : Installs(r)
    /\ Goes(t, "drop", "assign")
    /\ UNCHANGED <<reg, raced>>

\* GetInstance: the temporary is destroyed at the end of the statement
DropTemporary(t) ==
    /\ Running /\ pc[t] = "drop"
    /\ \E r \in Destructor(Cur, hnd[t]) : Installs(r)
    /\ Takes(t, 0, "return", "drop")

\* GetInstance: return std::move(singleton_): the member initialisers of the
\* move constructor build the returned handle, which is the thread's local
\* `singleton` (the copy from the returned value is elided)
ReturnInit(t, c) ==
    /\ Running /\ pc[t] = "return" /\ NextSlot(c)
    /\ \E r \in MoveInit(Cur, c, singleton_) : Installs(r)
    /\ Takes(t, c, "return_body", "return_init")

\* GetInstance: return std::move(singleton_): the body of the move constructor
ReturnBody(t) ==
    /\ Running /\ pc[t] = "return_body"
    /\ \E r \in MoveBody(Cur, singleton_) : Installs(r)
    /\ Goes(t, "unlock", "return_body")
    /\ UNCHANGED <<reg, raced>>

\* GetInstance: the lock is released when the function returns
Unlock(t) ==
    /\ Running /\ pc[t] = "unlock" /\ mutex_ = t
    /\ mutex_' = "free"
    /\ pc' = [pc EXCEPT ![t] = "print"]
    /\ last' = [op |-> "unlock", dst |-> 0, src |-> 0]
    /\ UNCHANGED <<live, ty, ptr, ref_count, objState, objVal, objDyn,
                   ctrState, ctrVal, leakObj, leakCtr, fault, reg, hnd,
                   raced, out>>

\* ThreadFoo / ThreadBar: std::cout << singleton->value(); then the local
\* handle goes out of scope
PrintValue(t) ==
    /\ Running /\ pc[t] = "print"
    /\ \E r \in ReadThrough(Cur, hnd[t]) :
           /\ Installs(r)
           /\ out' = [out EXCEPT ![t] = IF r.fault = "none"
                                         THEN operator_star(Cur, hnd[t]) ELSE 0]
    /\ pc' = [pc EXCEPT ![t] = "ready"]
    /\ last' = [op |-> "print", dst |-> hnd[t], src |-> 0]
    /\ UNCHANGED <<reg, hnd, mutex_, raced>>

\* main: the static singleton_ is initialised, the two threads run, are
\* joined, and singleton_ is destroyed at exit
SingletonNext ==
    \/ Unborn /\ ConstructNull(singleton_, "Base")
    \/ StartThreads
    \/ \E t \in Threads : Lock(t)
    \/ \E t \in Threads : TestInstance(t)
    \/ \E t \in Threads, c \in Handles : CreateInstance(t, c)
    \/ \E t \in Threads : AssignInstance(t)
    \/ \E t \in Threads : DropTemporary(t)
    \/ \E t \in Threads, c \in Handles : ReturnInit(t, c)
    \/ \E t \in Threads : ReturnBody(t)
    \/ \E t \in Threads : Unlock(t)
    \/ \E t \in Threads : PrintValue(t)
    \/ \E t \in Threads : DestroyLoad(t)
    \/ \E t \in Threads : DestroyStore(t)
    \/ \E t \in Threads : DestroyTest(t)
    \/ \E t \in Threads : DestroyDelete(t)
    \/ BothDone /\ Destroy(singleton_)

SingletonSpec == Init /\ [][SingletonNext]_vars

\* the operating system schedules every thread that can run
FairSingletonSpec == SingletonSpec /\ WF_vars(SingletonNext)

\* thread t has received its handle from GetInstance and still holds it
Holds(t) == pc[t] \in {"unlock", "print", "ready", "d_store", "d_test", "d_delete"}

\* thread t has printed
Printed(t) == pc[t] \in {"ready", "d_store", "d_test", "d_delete", "done"}

\* thread t, not holding the mutex, is about to load or store the counter
\* of its handle in ~SmartPtr(), and the other thread holds a handle on that
\* counter or can still reach it through singleton_
UnlockedSharedUpdate(t) ==
    /\ Running /\ mutex_ # t
    /\ pc[t] \in {"ready", "d_store"}
    /\ \/ Holds(Other(t)) /\ ref_count[hnd[Other(t)]] = ref_count[hnd[t]]
       \/ /\ pc[Other(t)] # "done" /\ live[singleton_]
          /\ ref_count[singleton_] = ref_count[hnd[t]]

\* ---------------------------------------------------------------- claims

\* C1: an object's storage is released only at the step where its record's
\* count goes from 1 to 0, never while another live handle still has get()
\* equal to that storage, and never a second time.
ReleaseOnlyWhenUnshared ==
    /\ \A r \in Outcomes : DeleteOnlyAtZero(r.log)
    /\ \A h \in Handles : Owning(h) => objState[ptr[h]] = "live"
    /\ fault # "double_delete"

\* C2 (Invariant A): for every non-empty handle h, h.use_count() equals the
\* number of live handles whose get() is non-null and equal to h.get().
InvariantA ==
    \A h \in Handles :
        Owning(h) => use_count(Cur, h) = Cardinality(StorageAliases(h))

\* C3: once every handle has been destroyed, every object that was ever
\* held by a handle has been released; nothing allocated remains unreleased.
NoObjectLeaked ==
    (Running /\ \A h \in Handles : ~live[h]) => leakObj = 0

\* C4: copy-constructing h2 from a non-empty handle h with use_count() n
\* completes and gives h.use_count() = h2.use_count() = n + 1, and every
\* other handle on h's counter record reports n + 1 as well.
CopyConstructCounts ==
    \A h \in Handles, h2 \in Handles :
        (Running /\ Intact(h) /\ NextSlot(h2)) =>
            \A r \in SmartPtr_copy(Cur, h2, h) :
                /\ r.fault = "none"
                /\ use_count(r, h) = use_count(Cur, h) + 1
                /\ use_count(r, h2) = use_count(Cur, h) + 1
                /\ \A g \in RecordAliases(h) : use_count(r, g) = use_count(Cur, h) + 1

\* C4 witness: a copy has just been made from a handle that had an alias,
\* and source, copy and alias all report 3
CopyConstructCountsSeen ==
    /\ Running /\ last.op = "copy_construct"
    /\ Intact(last.src) /\ Intact(last.dst)
    /\ use_count(Cur, last.src) = 3 /\ use_count(Cur, last.dst) = 3
    /\ \E g \in RecordAliases(last.src) \ {last.src, last.dst} : use_count(Cur, g) = 3

\* C5: a copy aliases the same object: after copy-constructing h2 from a
\* non-empty handle h, or copy-assigning h2 = h, h2.get() = h.get(), no new
\* object has been allocated, and a value written through h2 is read
\* through h.
CopyAliasesObject ==
    \A h \in Handles, h2 \in Handles :
        /\ (Running /\ Intact(h) /\ NextSlot(h2)) =>
               \A r \in SmartPtr_copy(Cur, h2, h) :
                   /\ get(r, h2) = get(r, h)
                   /\ Events(r.log, "new") = {}
                   /\ \A v \in Values : \A w \in StoreThrough(r, h2, v) :
                          w.fault = "none" /\ w.objVal[get(w, h)] = v
        /\ (Running /\ Intact(h) /\ Sound(h2) /\ h # h2) =>
               \A r \in CopyAssignOp(Cur, h2, h) :
                   /\ get(r, h2) = get(r, h)
                   /\ Events(r.log, "new") = {}

\* C6: move-constructing h3 from any handle h leaves h empty (get() null,
\* use_count() 0) and gives h3 h's pre-move pointer and pre-move
\* use_count(); the counter record is neither incremented nor decremented.
MoveConstructTransfers ==
    \A h \in Handles, h3 \in Handles :
        (Running /\ Sound(h) /\ NextSlot(h3)) =>
            \A r \in SmartPtr_move(Cur, h3, h) :
                /\ r.fault = "none"
                /\ get(r, h) = Null /\ use_count(r, h) = 0
                /\ get(r, h3) = get(Cur, h)
                /\ use_count(r, h3) = use_count(Cur, h)
                /\ r.ctrVal[ref_count[h]] = ctrVal[ref_count[h]]
                /\ Events(r.log, "inc") \cup Events(r.log, "dec") = {}

\* C6 witness: a handle whose count was 2 has just been moved from
MoveConstructTransfersSeen ==
    /\ Running /\ last.op = "move_construct"
    /\ Empty(last.src) /\ use_count(Cur, last.src) = 0
    /\ Intact(last.dst) /\ use_count(Cur, last.dst) = 2

\* the handles other than h keep their get() and use_count() from s to r
OthersKeep(s, r, h) ==
    \A g \in Handles \ {h} :
        s.live[g] => /\ r.live[g]
                     /\ get(r, g) = get(s, g)
                     /\ use_count(r, g) = use_count(s, g)

\* C7: moving a handle does not change what the other aliases observe,
\* neither at the move nor when the moved-from handle is destroyed
\* afterwards (README: 0 / 2 / 2, and still 2 / 2 after the destruction).
MoveLeavesAliasesAlone ==
    /\ \A h \in Handles, h3 \in Handles :
           (Running /\ Sound(h) /\ NextSlot(h3)) =>
               \A r \in SmartPtr_move(Cur, h3, h) :
                   /\ OthersKeep(Cur, r, h)
                   /\ \A r2 \in Destructor(r, h) :
                          /\ r2.fault = "none"
                          /\ OthersKeep(r, r2, h)
                          /\ Events(r2.log, "delete") = {}
    \* later: as long as the emptied handle is the only one on its counter
    /\ \A h \in Handles :
           (Running /\ Empty(h) /\ Sound(h) /\ CounterSharers(h) = {h}) =>
               \A r \in Destructor(Cur, h) :
                   /\ r.fault = "none"
                   /\ OthersKeep(Cur, r, h)
                   /\ Events(r.log, "delete") = {}

\* C7 witness: the README's state, ptr moved into ptr3 while ptr2 is a copy
MoveLeavesAliasesAloneSeen ==
    /\ Running /\ last.op = "move_construct"
    /\ use_count(Cur, last.src) = 0
    /\ use_count(Cur, last.dst) = 2
    /\ \E g \in Handles \ {last.src, last.dst} :
           /\ Intact(g) /\ use_count(Cur, g) = 2
           /\ ref_count[g] = ref_count[last.dst]

\* C8: copy-assign h2 = h1, distinct handles owning distinct objects X and
\* Y: X's count goes down by 1; X is released iff its count reaches 0, and
\* before h2 takes its stake in Y; afterwards h1.use_count() =
\* h2.use_count() = Y's previous count + 1 and the remaining aliases of X
\* report X's previous count - 1.
CopyAssignCounts ==
    \A h1 \in Handles, h2 \in Handles :
        (Running /\ h1 # h2 /\ Intact(h1) /\ Intact(h2) /\ ptr[h1] # ptr[h2]) =>
            \A r \in CopyAssignOp(Cur, h2, h1) :
                /\ r.fault = "none"
                /\ use_count(r, h1) = use_count(Cur, h1) + 1
                /\ use_count(r, h2) = use_count(Cur, h1) + 1
                /\ \A g \in StorageAliases(h2) \ {h2} :
                       use_count(r, g) = use_count(Cur, h2) - 1
                /\ (Events(r.log, "delete") # {}) <=> (use_count(Cur, h2) = 1)
                /\ \A d \in Events(r.log, "delete"), i \in Events(r.log, "inc") : d < i

\* C9: move-assign h2 = move(h1), distinct handles, h2 owning X and h1
\* owning Y: X's count goes down by 1 and X is released iff it reaches 0;
\* then h2 holds h1's previous pointer, Y's count is unchanged, and h1 is
\* empty (get() null, use_count() 0).
MoveAssignCounts ==
    \A h1 \in Handles, h2 \in Handles :
        (Running /\ h1 # h2 /\ Intact(h1) /\ Intact(h2) /\ ptr[h1] # ptr[h2]) =>
            \A r \in MoveAssignOp(Cur, h2, h1) :
                /\ r.fault = "none"
                /\ get(r, h2) = get(Cur, h1)
                /\ use_count(r, h2) = use_count(Cur, h1)
                /\ get(r, h1) = Null /\ use_count(r, h1) = 0
                /\ (Events(r.log, "delete") # {}) <=> (use_count(Cur, h2) = 1)

\* C10: self-assignment is a no-op: for every handle h, Owning or Empty,
\* h = h and h = move(h) leave every handle and the heap as they were and
\* release nothing.
SelfAssignNoOp ==
    \A h \in Handles :
        (Running /\ live[h]) =>
            /\ CopyAssignOp(Cur, h, h) = {Cur}
            /\ MoveAssignOp(Cur, h, h) = {Cur}

\* C10 witness: a sole owner has just been copy-assigned to itself
SelfAssignNoOpSeen ==
    /\ Running /\ last.op = "copy_assign" /\ last.dst = last.src
    /\ Intact(last.dst) /\ use_count(Cur, last.dst) = 1

\* handle h of state r owns a live object holding v, with a count of 1
OwnsAlone(r, h, v) ==
    /\ r.fault = "none" /\ r.live[h]
    /\ use_count(r, h) = 1
    /\ get(r, h) # Null /\ r.objState[get(r, h)] = "live"
    /\ r.objVal[get(r, h)] = v
    /\ operator_star(r, h) = v
    /\ r.objVal[operator_arrow(r, h)] = v

\* C17: for every value v, SmartPtr<T>(new T(v)) and SmartPtr<T>(T&&) from v
\* yield a handle with use_count() 1, get() non-null, and *get(),
\* operator* and operator-> all giving v.
OwningConstruction ==
    \A h \in Handles, t \in Types, v \in Values :
        (Running /\ NextSlot(h)) =>
            /\ \A d \in Types : IsA(d, t) =>
                   \A r \in SmartPtr_raw(Cur, h, t, d, v) : OwnsAlone(r, h, v)
            /\ \A r \in SmartPtr_value(Cur, h, t, v) : OwnsAlone(r, h, v)

\* C17 witness: a handle has just been constructed from the value 20 while
\* another handle already owns an object
OwningConstructionSeen ==
    /\ Running /\ last.op = "construct_value"
    /\ Intact(last.dst) /\ use_count(Cur, last.dst) = 1
    /\ objVal[ptr[last.dst]] = 20
    /\ \E g \in Handles \ {last.dst} : Intact(g)

\* handle h of state r is Empty: get() null, use_count() 0, !h true
EmptyIn(r, h) ==
    /\ r.fault = "none" /\ r.live[h]
    /\ get(r, h) = Null /\ use_count(r, h) = 0 /\ IsNullHandle(r, h)

\* C18: a handle constructed with a null pointer (or by default) is Empty:
\* get() null, use_count() 0, !h true; and when an Empty handle is
\* move-constructed or move-assigned into another handle, the destination
\* is Empty with use_count() 0.
NullHandleIsEmpty ==
    /\ \A h \in Handles, t \in Types :
           (Running /\ NextSlot(h)) =>
               \A r \in SmartPtr_null(Cur, h, t) : EmptyIn(r, h)
    /\ \A e \in Handles, h \in Handles :
           /\ (Running /\ Empty(e) /\ Sound(e) /\ NextSlot(h)) =>
                  \A r \in SmartPtr_move(Cur, h, e) : EmptyIn(r, h) /\ EmptyIn(r, e)
           /\ (Running /\ Empty(e) /\ Sound(e) /\ Sound(h) /\ h # e) =>
                  \A r \in MoveAssignOp(Cur, h, e) : EmptyIn(r, h) /\ EmptyIn(r, e)

\* C18 witness: an Empty handle has just been move-assigned into a handle
\* that is now Empty
NullHandleIsEmptySeen ==
    /\ Running /\ last.op = "move_assign" /\ last.dst # last.src
    /\ Empty(last.dst) /\ use_count(Cur, last.dst) = 0 /\ ptr[last.dst] = Null
    /\ Empty(last.src)

\* the object of handle h is a U, so that both casts to U are defined
HoldsA(h, u) == IF ptr[h] = Null THEN FALSE ELSE IsA(objDyn[ptr[h]], u)

\* in outcome r of a cast of h, the new handle c points at h's object and
\* both report one more than h did
Joined(r, c, h) ==
    /\ r.fault = "none" /\ ~r.thrown /\ r.live[c]
    /\ get(r, c) = get(Cur, h) /\ get(r, h) = get(Cur, h)
    /\ r.objState[get(r, c)] = "live"
    /\ use_count(r, h) = use_count(Cur, h) + 1
    /\ use_count(r, c) = use_count(Cur, h) + 1

CastKeepsCountOfOne ==
    \A h \in Handles, c \in Handles, e \in BOOLEAN :
        (Running /\ Intact(h) /\ NextSlot(c) /\ ty[h] = "Base"
                 /\ HoldsA(h, "Derived") /\ use_count(Cur, h) = 1) =>
            \A r \in DynamicCastOp(Cur, c, h, "Derived", e)
                      \cup StaticCastOp(Cur, c, h, "Derived", e) :
                /\ r.fault = "none" /\ r.live[c]
                /\ get(r, h) # Null /\ get(r, c) # Null
                /\ use_count(r, h) = 1 /\ use_count(r, c) = 1

\* C13 (Invariant D): a cast never creates a new ownership record: it
\* allocates no object and no counter at any point, and the handle it
\* returns has the very counter of the original.
CastAllocatesNothing ==
    \A h \in Handles, c \in Handles, u \in Types, e \in BOOLEAN :
        (Running /\ Intact(h) /\ NextSlot(c) /\ HoldsA(h, u)) =>
            \A r \in DynamicCastOp(Cur, c, h, u, e)
                      \cup StaticCastOp(Cur, c, h, u, e) :
                /\ r.fault = "none" /\ r.live[c]
                /\ r.ref_count[c] = ref_count[h]
                /\ Events(r.log, "new") = {}
                /\ Events(r.log, "newctr") = {}

\* C15: dynamicCast<U>() on a handle whose object is not a U reports
\* bad_cast, returns no handle, and leaves the handle's get() and
\* use_count(), every other handle and the released objects as they were:
\* its only outcome is the state it started in, with the exception raised.
FailedDynamicCastChangesNothing ==
    \A h \in Handles, c \in Handles, u \in Types, e \in BOOLEAN :
        (Running /\ Intact(h) /\ NextSlot(c) /\ ~HoldsA(h, u)) =>
            DynamicCastOp(Cur, c, h, u, e) = {[Cur EXCEPT !.thrown = TRUE]}

\* C15 witness: a dynamicCast<Derived>() of a handle on a Base object, which
\* has an alias, has just raised bad_cast
FailedDynamicCastChangesNothingSeen ==
    /\ Running /\ last.op = "bad_cast"
    /\ Intact(last.src) /\ objDyn[ptr[last.src]] = "Base"
    /\ use_count(Cur, last.src) = 2
    /\ ~live[last.dst]

\* C16: staticCast<U>() has no runtime error: on every handle on which it
\* is defined, Owning or Empty, it returns a handle and never raises
\* bad_cast.
StaticCastNeverFails ==
    \A h \in Handles, c \in Handles, u \in Types, e \in BOOLEAN :
        (Running /\ Sound(h) /\ NextSlot(c) /\ (Empty(h) \/ HoldsA(h, u))) =>
            \A r \in StaticCastOp(Cur, c, h, u, e) : ~r.thrown /\ r.live[c]

\* C14: two handles that a cast has put on one object report the same
\* use_count() for as long as both own it; destroying one of them while the
\* other is alive does not release the object, and destroying the last of
\* them releases it, exactly once.
CastAliasesInStep ==
    \A h \in Handles, c \in Handles :
        (Running /\ h # c /\ Intact(h) /\ Intact(c) /\ ptr[h] = ptr[c]) =>
            /\ use_count(Cur, h) = use_count(Cur, c)
            /\ \A r \in Destructor(Cur, c) :
                   /\ r.fault = "none"
                   /\ Events(r.log, "delete") = {}
                   /\ StorageAliases(h) = {h, c} =>
                          \A r2 \in Destructor(r, h) :
                              /\ r2.fault = "none"
                              /\ Cardinality(Events(r2.log, "delete")) = 1
                              /\ r2.objState[ptr[h]] = "released"

\* C19: every live handle is either Empty (get() null, use_count() 0, !h
\* true) or Owning (get() non-null, use_count() a count of at least 1, !h
\* false); no live handle has a non-null pointer with a count of 0 or less.
EmptyOrOwning ==
    \A h \in Handles :
        live[h] =>
            \/ /\ get(Cur, h) = Null
               /\ use_count(Cur, h) = 0
               /\ IsNullHandle(Cur, h)
            \/ /\ get(Cur, h) # Null
               /\ ctrState[ref_count[h]] = "live"
               /\ use_count(Cur, h) >= 1
               /\ ~IsNullHandle(Cur, h)

\* C20: equality is identity of the ownership record: a == b iff a and b
\* reference the same storage and the same counter, and a != b is its
\* negation; so a handle and its copy compare equal, while a handle made by
\* a separate owning construction compares unequal to every other handle,
\* whatever the values.
EqualityIsIdentity ==
    /\ \A h \in Handles, h2 \in Handles :
           (Running /\ Intact(h) /\ NextSlot(h2)) =>
               \A r \in SmartPtr_copy(Cur, h2, h) :
                   Equals(r, h, h2) /\ ~NotEquals(r, h, h2)
    /\ \A h \in Handles, v \in Values :
           (Running /\ NextSlot(h)) =>
               \A r \in SmartPtr_raw(Cur, h, "Base", "Base", v) :
                   \A g \in Handles \ {h} :
                       live[g] => NotEquals(r, h, g) /\ ~Equals(r, h, g)

\* C21: destroying an Empty handle, however it became Empty, has no effect
\* on any count: the destructor completes, no other handle's use_count() or
\* get() changes, and no object is released.
EmptyDestroyChangesNothing ==
    \A h \in Handles :
        (Running /\ Empty(h)) =>
            \A r \in Destructor(Cur, h) :
                /\ r.fault = "none"
                /\ OthersKeep(Cur, r, h)
                /\ Events(r.log, "delete") = {}

\* C22: concurrent use of aliasing handles is unsafe.  When a thread's
\* store of the counter falls after another thread's store that it has not
\* loaded (an update is lost), the count no longer matches the handles on
\* the record, and the run ends with the object released under a handle
\* that still refers to it or released twice (a fault), or never released.
LostUpdateEndsBadly ==
    /\ (raced /\ BothDone /\ Running) =>
           \/ leakObj > 0
           \/ \E h \in Handles :
                  Owning(h) /\ ctrVal[ref_count[h]] # Cardinality(RecordAliases(h))
    /\ (raced /\ BothDone /\ \A h \in Handles : ~live[h]) =>
           (fault # "none" \/ leakObj > 0)

\* C22 witness: both threads have run the destructor of their alias, the
\* second decrement overwrote the first, the last test read 1, and the
\* object that no handle refers to any more was never released
LostUpdateEndsBadlySeen ==
    /\ Running /\ BothDone /\ raced
    /\ last.op = "d_test"
    /\ \A h \in Handles : ~live[h]
    /\ leakObj > 0

\* C23: GetInstance returns the same Singleton object on every call: a
\* call that finds an instance already made creates no second one, two
\* threads that hold a handle at the same time hold the same object, and
\* both threads print the same value.
SingletonReused ==
    /\ \A t \in Threads :
           pc[t] = "create" => pc[Other(t)] = "sleep"
    /\ \A t \in Threads :
           (Running /\ Holds(t) /\ Holds(Other(t))) =>
               get(Cur, hnd[t]) = get(Cur, hnd[Other(t)])
    /\ \A t \in Threads :
           (Running /\ Printed(t) /\ Printed(Other(t))) => out[t] = out[Other(t)]

\* C24: in the Singleton demo the two threads share a handle's ownership
\* record: the run reaches a state in which handles of ThreadFoo and
\* ThreadBar (or of one of them and singleton_) reference the same counter
\* and one thread changes that counter without holding the mutex while the
\* other can change it too.
SingletonRecordShared == <>(\E t \in Threads : UnlockedSharedUpdate(t))

\* C25: record-based count correctness: in every state, the value of each
\* counter record referenced by at least one Owning handle equals the
\* number of live Owning handles that reference that record, whatever
\* their storage pointers are.
RecordCountCorrect ==
    \A h \in Handles :
        (Running /\ Owning(h)) =>
            /\ ctrState[ref_count[h]] = "live"
            /\ ctrVal[ref_count[h]] = Cardinality(RecordAliases(h))

\* C26: counter records are not leaked and never go below zero: once every
\* handle has been destroyed every counter that was allocated has been
\* released, none was released twice, and no decrement ever leaves a
\* negative value in a counter.
CountersReleasedAndNonNegative ==
    /\ (Running /\ \A h \in Handles : ~live[h]) => leakCtr = 0
    /\ \A h \in Handles : (Running /\ live[h]) => ctrVal[ref_count[h]] >= 0
    /\ \A r \in Outcomes : \A i \in Events(r.log, "dec") : r.log[i][3] >= 0
    /\ fault # "double_delete"

\* C27: per-handle state transitions.  A handle goes from Owning to Empty
\* only as the source of a move construction or move assignment, or as the
\* destination of an assignment whose source is Empty; it goes from Empty
\* to Owning only as the destination of a copy assignment or move
\* assignment from an Owning handle.  Being the source of a copy or of a
\* cast never changes the handle's own pointer (get(), use_count(),
\* operator! and the dereferences are functions of the state).
HandleTransitions ==
    [][/\ \A h \in Handles :
              /\ (Owning(h) /\ live'[h] /\ ptr'[h] = Null) =>
                     \/ /\ last'.op \in {"move_construct", "move_assign"}
                        /\ last'.src = h /\ last'.dst # h
                     \/ /\ last'.op \in {"copy_assign", "move_assign"}
                        /\ last'.dst = h /\ Empty(last'.src)
              /\ (Empty(h) /\ live'[h] /\ ptr'[h] # Null) =>
                     /\ last'.op \in {"copy_assign", "move_assign"}
                     /\ last'.dst = h /\ Owning(last'.src)
       /\ \A h \in Handles, c \in Handles, e \in BOOLEAN :
              (Running /\ Sound(h) /\ NextSlot(c)) =>
                  \A r \in SmartPtr_copy(Cur, c, h) \cup DynamicCastOp(Cur, c, h, "Base", e)
                            \cup StaticCastOp(Cur, c, h, "Base", e) :
                      r.fault = "none" => get(r, h) = get(Cur, h)
       /\ \A h \in Handles, c \in Handles :
              (Running /\ Sound(h) /\ Sound(c) /\ c # h) =>
                  \A r \in CopyAssignOp(Cur, c, h) :
                      r.fault = "none" => get(r, h) = get(Cur, h)]_vars

\* C28: copying from an Empty handle is safe: copy-constructing from it, or
\* copy-assigning from it, dereferences no null storage, allocates no
\* object, and leaves the destination Empty with use_count() 0; a
\* destination that was Owning has released its stake first.
CopyFromEmptyIsSafe ==
    \A e \in Handles, h \in Handles :
        /\ (Running /\ Empty(e) /\ Sound(e) /\ NextSlot(h)) =>
               \A r \in SmartPtr_copy(Cur, h, e) :
                   /\ EmptyIn(r, h)
                   /\ Events(r.log, "new") = {}
        /\ (Running /\ Empty(e) /\ Sound(e) /\ Sound(h) /\ h # e) =>
               \A r \in CopyAssignOp(Cur, h, e) :
                   /\ EmptyIn(r, h)
                   /\ Events(r.log, "new") = {}
                   /\ Owning(h) => \E i \in Events(r.log, "dec") :
                                       r.log[i][2] = ref_count[h]

\* the objects of outcome r that are allocated and that no handle points at
Unreachable(r) ==
    {o \in Objs : r.objState[o] = "live"
                  /\ \A h \in Handles : r.live[h] => r.ptr[h] # o}

\* C29: assignment between two distinct handles that already alias the
\* same record (count n >= 2) never releases the object: after a = b the
\* count is still n and both are Owning; after a = move(b) the count is
\* n - 1, a is Owning and b is Empty; in both cases no object is released
\* or leaked by the assignment.
AssignWithinRecord ==
    \A a \in Handles, b \in Handles :
        (Running /\ a # b /\ Intact(a) /\ Intact(b)
                 /\ ref_count[a] = ref_count[b] /\ use_count(Cur, a) >= 2) =>
            /\ \A r \in CopyAssignOp(Cur, a, b) :
                   /\ r.fault = "none"
                   /\ use_count(r, a) = use_count(Cur, a)
                   /\ use_count(r, b) = use_count(Cur, a)
                   /\ get(r, a) # Null /\ get(r, b) # Null
                   /\ Events(r.log, "delete") = {}
                   /\ Unreachable(r) = {}
            /\ \A r \in MoveAssignOp(Cur, a, b) :
                   /\ r.fault = "none"
                   /\ use_count(r, a) = use_count(Cur, a) - 1
                   /\ get(r, a) = get(Cur, b)
                   /\ EmptyIn(r, b)
                   /\ Events(r.log, "delete") = {}
                   /\ Unreachable(r) = {}

\* C30: wrapping an already-owned raw pointer is not defended against: a
\* handle h constructed from the pointer that handle g holds is built
\* without an error, gets a counter record of its own and reports
\* use_count() 1, and g's count does not change; when g was the only owner,
\* destroying h releases the object under g, and destroying g afterwards
\* releases the same storage a second time.
DoubleWrapUndefended ==
    \A g \in Handles, h \in Handles :
        (Running /\ Intact(g) /\ NextSlot(h)) =>
            \A r \in SmartPtr_wrap(Cur, h, ty[g], g) :
                /\ r.fault = "none" /\ ~r.thrown /\ r.live[h]
                /\ get(r, h) = get(Cur, g) /\ get(r, g) = get(Cur, g)
                /\ r.ref_count[h] # r.ref_count[g]
                /\ use_count(r, h) = 1
                /\ use_count(r, g) = use_count(Cur, g)
                /\ (use_count(Cur, g) = 1) =>
                       \A r2 \in Destructor(r, h) :
                           /\ r2.fault = "none"
                           /\ r2.objState[get(r2, g)] = "released"
                           /\ \A r3 \in Destructor(r2, g) : r3.fault = "double_delete"

\* C30 witness: a second handle has just been constructed from the pointer
\* of a sole owner; both hold the same object, on two counters, and both
\* report 1
DoubleWrapUndefendedSeen ==
    /\ Running /\ last.op = "wrap_raw"
    /\ Intact(last.src) /\ Intact(last.dst)
    /\ ptr[last.dst] = ptr[last.src]
    /\ ref_count[last.dst] # ref_count[last.src]
    /\ use_count(Cur, last.src) = 1 /\ use_count(Cur, last.dst) = 1

====
